---- MODULE Spec2Model ----
(***************************************************************************)
(* A model of helper_PFCI.py: the bit-encoded Determinant class and the    *)
(* PFHamiltonianGenerator constructor (integral mapping, determinant basis *)
(* generation, constant matrices, Pauli-Fierz matrix assembly).            *)
(*                                                                         *)
(* Python integers are unbounded, so orbital bit-strings are modelled as   *)
(* TLA+ integers; >> is floor division by 2, & 1 is % 2, ~x is -x-1.       *)
(* Floating point numbers are modelled by integers; the cavity frequency   *)
(* is drawn from values whose half is a perfect square, so that            *)
(* sqrt(omega/2) is exact.                                                 *)
(***************************************************************************)
EXTENDS Integers, Sequences, FiniteSets, TLC

(***************************************************************************)
(* Bounds of the model.                                                    *)
(***************************************************************************)
\* largest number of molecular orbitals of a full generator run
MaxNmo == 2
\* largest number of molecular orbitals when the basis alone is generated
MaxBasisNmo == 4
\* largest orbital index in a list handed to the Determinant constructor
MaxOrb == 3
\* longest orbital index list handed to the Determinant constructor
MaxLen == 3
\* largest photon count handed to the generator
MaxPhoton == 2
\* largest number of spatial orbitals of a pair of determinants whose
\* electron counts may differ
MaxAnyNmo == 2
\* largest number of spatial orbitals of a pair of determinants with equal
\* electron counts in each spin channel
MaxPairNmo == 4
\* largest number of spatial orbitals of a pair of determinants without beta
\* electrons
MaxWideNmo == 6
\* the integral families are numbered 0..MaxSeed
MaxSeed == 1

VARIABLES
    \* ---- Determinant scenario (module-level calls on the Determinant class)
    dpc,            \* position in the Determinant scenario
    obtList,        \* the list argument L / alphaObtList
    betaObtList,    \* the betaObtList argument
    bitsOut,        \* result of obtIndexList2ObtBits(L)
    listOut,        \* result of obtBits2ObtIndexList(bitsOut)
    det,            \* the Determinant produced by the constructor
    raised,         \* the exception class raised, "none" if no exception
    \* ---- determinant pair scenario (method calls on two Determinants)
    det1,           \* the determinant the method is called on (self)
    det2,           \* the other determinant (another)
    excited,        \* list returned by an excitation generator
    uniqueOut,      \* result of det1.getUniqueOrbitalsInListsPlusSign(det2)
    diffOut,        \* numberOfTotalDiffOrbitals in both argument orders
    diff2Out,       \* result of det1.diff2OrLessOrbitals(det2)
    tseed,          \* seed of the tensors the evaluator was given
    elemOut,        \* results of calcApDMatrixElement and calcGMatrixElement
    \* ---- PFHamiltonianGenerator fields
    pc,             \* position in PFHamiltonianGenerator.__init__
    ci_level,       \* the ci_level argument
    ignore_coupling, N_p, omega,
    p4_wfn,         \* the wavefunction object parseArrays returns (a handle)
    nmo, ndocc, nso,
    Enuc, dc, d_exp,
    Ca, T_ao, V_ao, q_PF_ao, d_PF_ao, d_cmo,
    Hspin, eri_so, TDI_spin, antiSym2eInt, g_so,
    dets, numDets,
    Enuc_so, G_exp_so, Omega_so, dc_so,
    ApDmatrix, Gmatrix, H_PF

pairVars == <<det1, det2, excited, uniqueOut, diffOut, diff2Out, tseed, elemOut>>
detVars == <<dpc, obtList, betaObtList, bitsOut, listOut, det, raised, pairVars>>
argVars == <<ci_level, ignore_coupling, N_p, omega>>
rhfVars == <<p4_wfn, nmo, ndocc, nso, Enuc, dc, d_exp, Ca, T_ao, V_ao, q_PF_ao, d_PF_ao, d_cmo>>
soVars == <<Hspin, eri_so, TDI_spin, antiSym2eInt, g_so>>
basisVars == <<dets, numDets>>
constVars == <<Enuc_so, G_exp_so, Omega_so, dc_so>>
matVars == <<ApDmatrix, Gmatrix, H_PF>>
genVars == <<pc, argVars, rhfVars, soVars, basisVars, constVars, matVars>>
vars == <<detVars, genVars>>

(***************************************************************************)
(* Python list helpers.                                                    *)
(***************************************************************************)
RECURSIVE InsertDesc(_, _)
InsertDesc(x, s) ==
    IF s = <<>> THEN <<x>>
    ELSE IF x >= Head(s) THEN <<x>> \o s
    ELSE <<Head(s)>> \o InsertDesc(x, Tail(s))

\* sorted(obtList, reverse=True)
RECURSIVE SortedReverse(_)
SortedReverse(s) ==
    IF s = <<>> THEN <<>> ELSE InsertDesc(Head(s), SortedReverse(Tail(s)))

(***************************************************************************)
(* Bit operations on Python integers.                                      *)
(***************************************************************************)
\* bits << k, for k >= 0
ShiftLeft(bits, k) == bits * (2 ^ k)

\* a | b for a, b >= 0
RECURSIVE BitOr(_, _)
BitOr(a, b) ==
    IF a = 0 THEN b
    ELSE IF b = 0 THEN a
    ELSE (IF a % 2 = 1 \/ b % 2 = 1 THEN 1 ELSE 0) + 2 * BitOr(a \div 2, b \div 2)

\* a & b for a >= 0 and any integer b (two's complement, floor division)
RECURSIVE BitAnd(_, _)
BitAnd(a, b) ==
    IF a = 0 THEN 0
    ELSE (IF a % 2 = 1 /\ b % 2 = 1 THEN 1 ELSE 0) + 2 * BitAnd(a \div 2, b \div 2)

\* a ^ b for a, b >= 0
RECURSIVE BitXor(_, _)
BitXor(a, b) ==
    IF a = 0 THEN b
    ELSE IF b = 0 THEN a
    ELSE (IF a % 2 # b % 2 THEN 1 ELSE 0) + 2 * BitXor(a \div 2, b \div 2)

\* ~a
BitNot(a) == -a - 1

(***************************************************************************)
(* class Determinant: static conversions.                                  *)
(***************************************************************************)
\* the for loop of obtIndexList2ObtBits over the reverse-sorted list:
\* bits <<= iPre - i ; bits |= 1 ; iPre = i
RECURSIVE ObtBitsLoop(_, _, _)
ObtBitsLoop(rest, bits, iPre) ==
    IF rest = <<>> THEN [bits |-> bits, iPre |-> iPre]
    ELSE ObtBitsLoop(Tail(rest), BitOr(ShiftLeft(bits, iPre - Head(rest)), 1), Head(rest))

\* obtIndexList2ObtBits without its final bits <<= iPre
obtIndexList2ObtBits_NoFinalShift(L) ==
    IF Len(L) = 0 THEN [raised |-> "none", bits |-> 0]
    ELSE LET s == SortedReverse(L)
             r == ObtBitsLoop(s, 1, s[1])
         IN  IF r.iPre < 0 THEN [raised |-> "ValueError", bits |-> 0]
             ELSE [raised |-> "none", bits |-> r.bits]

\* Determinant.obtIndexList2ObtBits; the final bits <<= iPre raises
\* ValueError (negative shift count) when the smallest index is negative
obtIndexList2ObtBits(L) ==
    IF Len(L) = 0 THEN [raised |-> "none", bits |-> 0]
    ELSE LET s == SortedReverse(L)
             r == ObtBitsLoop(s, 1, s[1])
         IN  IF r.iPre < 0 THEN [raised |-> "ValueError", bits |-> 0]
             ELSE [raised |-> "none", bits |-> ShiftLeft(r.bits, r.iPre)]

\* the while loop of obtBits2ObtIndexList
RECURSIVE ObtIndexLoop(_, _, _)
ObtIndexLoop(bits, i, obts) ==
    IF bits = 0 THEN obts
    ELSE ObtIndexLoop(bits \div 2, i + 1, IF bits % 2 = 1 THEN Append(obts, i) ELSE obts)

\* Determinant.obtBits2ObtIndexList
obtBits2ObtIndexList(bits) == ObtIndexLoop(bits, 0, <<>>)

\* Determinant.countNumOrbitalsInBits
RECURSIVE countNumOrbitalsInBits(_)
countNumOrbitalsInBits(bits) ==
    IF bits = 0 THEN 0 ELSE (bits % 2) + countNumOrbitalsInBits(bits \div 2)

\* Determinant(alphaObtBits=a, betaObtBits=b), lists left None
Determinant(a, b) == [alphaObtBits |-> a, betaObtBits |-> b]

\* Determinant(alphaObtList=aL, betaObtList=bL): the bit arguments keep their
\* default 0, so both lists are converted; an exception of the conversion
\* leaves the constructor and no object exists
DeterminantFromLists(aL, bL) ==
    LET a == obtIndexList2ObtBits(aL)
        b == obtIndexList2ObtBits(bL)
    IN  IF a.raised # "none" THEN [raised |-> a.raised, det |-> Determinant(0, 0)]
        ELSE IF b.raised # "none" THEN [raised |-> b.raised, det |-> Determinant(0, 0)]
        ELSE [raised |-> "none", det |-> Determinant(a.bits, b.bits)]

(***************************************************************************)
(* class Determinant: instance methods.                                    *)
(***************************************************************************)
\* Determinant.mixIndexList
mixIndexList(alphaList, betaList) ==
    [x \in 1..Len(alphaList) |-> alphaList[x] * 2]
        \o [x \in 1..Len(betaList) |-> betaList[x] * 2 + 1]

\* Determinant.getOrbitalIndexLists
getOrbitalIndexLists(d) ==
    <<obtBits2ObtIndexList(d.alphaObtBits), obtBits2ObtIndexList(d.betaObtBits)>>

\* Determinant.getOrbitalMixedIndexList (via obtBits2ObtMixSpinIndexList)
getOrbitalMixedIndexList(d) ==
    mixIndexList(obtBits2ObtIndexList(d.alphaObtBits), obtBits2ObtIndexList(d.betaObtBits))

\* Determinant.countNumOrbitalsInBitsUpTo4: the loop stops once count reaches 4
RECURSIVE CountUpTo4Loop(_, _)
CountUpTo4Loop(bits, count) ==
    IF bits # 0 /\ count < 4
    THEN CountUpTo4Loop(bits \div 2, IF bits % 2 = 1 THEN count + 1 ELSE count)
    ELSE count

countNumOrbitalsInBitsUpTo4(bits) == CountUpTo4Loop(bits, 0)

\* the loop of getUnoccupiedOrbitalsInLists over one spin channel, started
\* on ~bits: for i in range(nmo): if bits & 1 == 1: append(i); bits >>= 1
RECURSIVE UnoccupiedLoop(_, _, _, _)
UnoccupiedLoop(bits, i, n, obts) ==
    IF i >= n THEN obts
    ELSE UnoccupiedLoop(bits \div 2, i + 1, n, IF bits % 2 = 1 THEN Append(obts, i) ELSE obts)

\* getUnoccupiedOrbitalsInLists scanning one orbital beyond nmo
getUnoccupiedOrbitalsInLists_OneBeyond(d, n) ==
    <<UnoccupiedLoop(BitNot(d.alphaObtBits), 0, n + 1, <<>>),
      UnoccupiedLoop(BitNot(d.betaObtBits), 0, n + 1, <<>>)>>

\* Determinant.getUnoccupiedOrbitalsInLists
getUnoccupiedOrbitalsInLists(d, n) ==
    <<UnoccupiedLoop(BitNot(d.alphaObtBits), 0, n, <<>>),
      UnoccupiedLoop(BitNot(d.betaObtBits), 0, n, <<>>)>>

\* Determinant.addAlphaOrbital / removeAlphaOrbital / addBetaOrbital /
\* removeBetaOrbital, applied to a copy
addAlphaOrbital(d, i) == [d EXCEPT !.alphaObtBits = BitOr(@, ShiftLeft(1, i))]
removeAlphaOrbital(d, i) == [d EXCEPT !.alphaObtBits = BitAnd(@, BitNot(ShiftLeft(1, i)))]
addBetaOrbital(d, i) == [d EXCEPT !.betaObtBits = BitOr(@, ShiftLeft(1, i))]
removeBetaOrbital(d, i) == [d EXCEPT !.betaObtBits = BitAnd(@, BitNot(ShiftLeft(1, i)))]

\* Determinant.copy
copy(d) == Determinant(d.alphaObtBits, d.betaObtBits)

\* flattens a sequence of sequences, keeping the order
RECURSIVE Concat(_)
Concat(ss) == IF ss = <<>> THEN <<>> ELSE Head(ss) \o Concat(Tail(ss))

\* generateSingleExcitationsOfDet with the virtual loop outside the occupied loop
generateSingleExcitationsOfDet_VirtualOuter(d, n) ==
    LET alphaO == getOrbitalIndexLists(d)[1]
        betaO == getOrbitalIndexLists(d)[2]
        alphaU == getUnoccupiedOrbitalsInLists(d, n)[1]
        betaU == getUnoccupiedOrbitalsInLists(d, n)[2]
    IN  Concat([j \in 1..Len(alphaU) |->
                   [i \in 1..Len(alphaO) |->
                       addAlphaOrbital(removeAlphaOrbital(copy(d), alphaO[i]), alphaU[j])]])
        \o
        Concat([l \in 1..Len(betaU) |->
                   [k \in 1..Len(betaO) |->
                       addBetaOrbital(removeBetaOrbital(copy(d), betaO[k]), betaU[l])]])

\* copy() handing back the object it was called on
CopyIsNewObject_ReturnSelf == FALSE

\* Determinant.copy constructs a new Determinant object: what is done to the
\* copy afterwards does not reach the object it was copied from
CopyIsNewObject == TRUE

\* one call det.removeAlphaOrbital(i) / det.addAlphaOrbital(i) /
\* det.removeBetaOrbital(i) / det.addBetaOrbital(i); call is <<method, i>>
ApplyCall(d, call) ==
    CASE call[1] = "removeAlphaOrbital" -> removeAlphaOrbital(d, call[2])
      [] call[1] = "addAlphaOrbital" -> addAlphaOrbital(d, call[2])
      [] call[1] = "removeBetaOrbital" -> removeBetaOrbital(d, call[2])
      [] call[1] = "addBetaOrbital" -> addBetaOrbital(d, call[2])

\* the calls of one loop body, applied in order to the object det names
RECURSIVE ApplyCalls(_, _)
ApplyCalls(d, calls) ==
    IF calls = <<>> THEN d ELSE ApplyCalls(ApplyCall(d, Head(calls)), Tail(calls))

\* the loops of an excitation generator: every body runs det = self.copy(),
\* the calls on det, and dets.append(det). bodies lists the calls of each
\* iteration in loop order (the orbital lists are read before the loops).
\* An entry of out that is the object self itself is kept as a reference
\* and read when the list is returned. Returns self after the call and
\* the list dets.
RECURSIVE ExcitationLoop(_, _, _)
ExcitationLoop(self, bodies, out) ==
    IF bodies = <<>>
    THEN [self |-> self,
          dets |-> [x \in 1..Len(out) |-> IF out[x].isSelf THEN self ELSE out[x].det]]
    ELSE IF CopyIsNewObject
         THEN ExcitationLoop(self, Tail(bodies),
                  Append(out, [isSelf |-> FALSE,
                               det |-> ApplyCalls(copy(self), Head(bodies))]))
         ELSE ExcitationLoop(ApplyCalls(self, Head(bodies)), Tail(bodies),
                  Append(out, [isSelf |-> TRUE, det |-> self]))

\* the loop bodies of generateSingleExcitationsOfDet in loop order
SingleExcitationBodies(d, n) ==
    LET alphaO == getOrbitalIndexLists(d)[1]
        betaO == getOrbitalIndexLists(d)[2]
        alphaU == getUnoccupiedOrbitalsInLists(d, n)[1]
        betaU == getUnoccupiedOrbitalsInLists(d, n)[2]
    IN  Concat([i \in 1..Len(alphaO) |->
                   [j \in 1..Len(alphaU) |->
                       <<<<"removeAlphaOrbital", alphaO[i]>>,
                         <<"addAlphaOrbital", alphaU[j]>>>>]])
        \o
        Concat([k \in 1..Len(betaO) |->
                   [l \in 1..Len(betaU) |->
                       <<<<"removeBetaOrbital", betaO[k]>>,
                         <<"addBetaOrbital", betaU[l]>>>>]])

\* Determinant.generateSingleExcitationsOfDet: the list it returns
generateSingleExcitationsOfDet(d, n) ==
    ExcitationLoop(d, SingleExcitationBodies(d, n), <<>>).dets

\* numberOfDiffOrbitals counting only the orbitals of d1 that d2 lacks
numberOfDiffOrbitals_OwnOrbitals(d1, d2) ==
    <<2 * countNumOrbitalsInBits(BitAnd(d1.alphaObtBits, BitNot(d2.alphaObtBits))),
      2 * countNumOrbitalsInBits(BitAnd(d1.betaObtBits, BitNot(d2.betaObtBits)))>>

\* Determinant.numberOfDiffOrbitals. Python returns diffAlpha / 2 and
\* diffBeta / 2 by true division; the model keeps both in units of 1/2
numberOfDiffOrbitals(d1, d2) ==
    <<countNumOrbitalsInBits(BitXor(d1.alphaObtBits, d2.alphaObtBits)),
      countNumOrbitalsInBits(BitXor(d1.betaObtBits, d2.betaObtBits))>>

\* Determinant.numberOfTotalDiffOrbitals, in units of 1/2
numberOfTotalDiffOrbitals(d1, d2) ==
    numberOfDiffOrbitals(d1, d2)[1] + numberOfDiffOrbitals(d1, d2)[2]

\* Determinant.diff2OrLessOrbitals
diff2OrLessOrbitals(d1, d2) ==
    countNumOrbitalsInBitsUpTo4(BitXor(d1.alphaObtBits, d2.alphaObtBits))
      + countNumOrbitalsInBitsUpTo4(BitXor(d1.betaObtBits, d2.betaObtBits)) <= 4

\* Determinant.uniqueOrbitalsInBits
uniqueOrbitalsInBits(bits1, bits2) ==
    LET common == BitAnd(bits1, bits2)
    IN  <<BitXor(bits1, common), BitXor(bits2, common)>>

\* Determinant.uniqueOrbitalsInLists
uniqueOrbitalsInLists(bits1, bits2) ==
    <<obtBits2ObtIndexList(uniqueOrbitalsInBits(bits1, bits2)[1]),
      obtBits2ObtIndexList(uniqueOrbitalsInBits(bits1, bits2)[2])>>

\* Determinant.getOrbitalPositions: count, index and bits run on across the
\* orbitals of the list
RECURSIVE OrbitalPositionsLoop(_, _, _, _, _)
OrbitalPositionsLoop(bits, rest, count, index, positions) ==
    IF rest = <<>> THEN positions
    ELSE IF index < Head(rest)
         THEN OrbitalPositionsLoop(bits \div 2, rest,
                  IF bits % 2 = 1 THEN count + 1 ELSE count, index + 1, positions)
         ELSE OrbitalPositionsLoop(bits, Tail(rest), count, index, Append(positions, count))

getOrbitalPositions(bits, orbitalIndexList) ==
    OrbitalPositionsLoop(bits, orbitalIndexList, 0, 0, <<>>)

\* the loop testing the parity of the position alone
RECURSIVE SignLoop_PositionParity(_, _, _)
SignLoop_PositionParity(positions, i, sign) ==
    IF i >= Len(positions) THEN sign
    ELSE SignLoop_PositionParity(positions, i + 1,
                  IF positions[i + 1] % 2 = 1 THEN -sign ELSE sign)

\* one loop of getSignToMoveOrbitalsToTheFront; i is the 0-based list index
RECURSIVE SignLoop(_, _, _)
SignLoop(positions, i, sign) ==
    IF i >= Len(positions) THEN sign
    ELSE SignLoop(positions, i + 1,
                  IF (positions[i + 1] - i) % 2 = 1 THEN -sign ELSE sign)

\* Determinant.getSignToMoveOrbitalsToTheFront
getSignToMoveOrbitalsToTheFront(d, alphaIndexList, betaIndexList) ==
    SignLoop(getOrbitalPositions(d.betaObtBits, betaIndexList), 0,
             SignLoop(getOrbitalPositions(d.alphaObtBits, alphaIndexList), 0, 1))

\* getUniqueOrbitalsInListsPlusSign returning the sign of d1 alone
getUniqueOrbitalsInListsPlusSign_OwnSign(d1, d2) ==
    LET a == uniqueOrbitalsInLists(d1.alphaObtBits, d2.alphaObtBits)
        b == uniqueOrbitalsInLists(d1.betaObtBits, d2.betaObtBits)
    IN  [unique1 |-> <<a[1], b[1]>>, unique2 |-> <<a[2], b[2]>>,
         sign |-> getSignToMoveOrbitalsToTheFront(d1, a[1], b[1])]

\* Determinant.getUniqueOrbitalsInListsPlusSign
getUniqueOrbitalsInListsPlusSign(d1, d2) ==
    LET a == uniqueOrbitalsInLists(d1.alphaObtBits, d2.alphaObtBits)
        b == uniqueOrbitalsInLists(d1.betaObtBits, d2.betaObtBits)
    IN  [unique1 |-> <<a[1], b[1]>>, unique2 |-> <<a[2], b[2]>>,
         sign |-> getSignToMoveOrbitalsToTheFront(d1, a[1], b[1])
                    * getSignToMoveOrbitalsToTheFront(d2, a[2], b[2])]

\* Determinant.getUniqueOrbitalsInMixIndexListsPlusSign
getUniqueOrbitalsInMixIndexListsPlusSign(d1, d2) ==
    LET u == getUniqueOrbitalsInListsPlusSign(d1, d2)
    IN  [unique1 |-> mixIndexList(u.unique1[1], u.unique1[2]),
         unique2 |-> mixIndexList(u.unique2[1], u.unique2[2]),
         sign |-> u.sign]

\* Determinant.getCommonOrbitalsInMixedSpinIndexList
getCommonOrbitalsInMixedSpinIndexList(d1, d2) ==
    mixIndexList(obtBits2ObtIndexList(BitAnd(d1.alphaObtBits, d2.alphaObtBits)),
                 obtBits2ObtIndexList(BitAnd(d1.betaObtBits, d2.betaObtBits)))

(***************************************************************************)
(* Spin-orbital integral mapping.                                          *)
(***************************************************************************)
\* sum of f[x] over a finite set of integers
RECURSIVE SumOver(_, _)
SumOver(S, f) ==
    IF S = {} THEN 0
    ELSE LET x == CHOOSE y \in S : \A z \in S : y <= z
         IN  f[x] + SumOver(S \ {x}, f)

\* sum of the entries of a sequence
RECURSIVE SumSeq(_)
SumSeq(s) == IF s = <<>> THEN 0 ELSE Head(s) + SumSeq(Tail(s))

\* the bool-to-number conversion of (a == b) in a numpy product
Delta(a, b) == IF a = b THEN 1 ELSE 0

\* the n x n matrix of zeros / np.identity(n)
Zeros(n) == [i \in 0..(n - 1), j \in 0..(n - 1) |-> 0]
Identity(n) == [i \in 0..(n - 1), j \in 0..(n - 1) |-> Delta(i, j)]

\* spin_idx_to_spat_idx_and_spin: <<spatial index, spin>>
spin_idx_to_spat_idx_and_spin(P) ==
    IF P % 2 = 0 THEN <<P \div 2, 1>> ELSE <<(P - 1) \div 2, -1>>

\* map_spatial_to_spin
map_spatial_to_spin(tei_spatial, I, J, K, L) ==
    LET i_s == spin_idx_to_spat_idx_and_spin(I)
        k_s == spin_idx_to_spat_idx_and_spin(K)
        j_s == spin_idx_to_spat_idx_and_spin(J)
        l_s == spin_idx_to_spat_idx_and_spin(L)
    IN  tei_spatial[i_s[1], k_s[1], j_s[1], l_s[1]]
            * Delta(i_s[2], k_s[2]) * Delta(j_s[2], l_s[2])
        - tei_spatial[i_s[1], l_s[1], j_s[1], k_s[1]]
            * Delta(i_s[2], l_s[2]) * Delta(j_s[2], k_s[2])

\* map_spatial_dipole_to_spin
map_spatial_dipole_to_spin(mu, I, J, K, L) ==
    LET i_s == spin_idx_to_spat_idx_and_spin(I)
        k_s == spin_idx_to_spat_idx_and_spin(K)
        j_s == spin_idx_to_spat_idx_and_spin(J)
        l_s == spin_idx_to_spat_idx_and_spin(L)
    IN  mu[i_s[1], k_s[1]] * mu[j_s[1], l_s[1]]
            * Delta(i_s[2], k_s[2]) * Delta(j_s[2], l_s[2])
        - mu[i_s[1], l_s[1]] * mu[j_s[1], k_s[1]]
            * Delta(i_s[2], l_s[2]) * Delta(j_s[2], k_s[2])

\* np.repeat(m, 2, axis=0), np.repeat(., 2, axis=1) and the spin mask
\* (spin_ind.reshape(-1, 1) == spin_ind) of build1HSO and buildGSO
SpinBlock(m, n) ==
    [P \in 0..(2 * n - 1), Q \in 0..(2 * n - 1) |->
        m[P \div 2, Q \div 2] * Delta(P % 2, Q % 2)]

\* np.sqrt(omega / 2), exact on the frequencies of the model
SqrtHalf(w) == CHOOSE r \in 0..w : 2 * r * r = w

\* build1HSO: the value of self.Hspin
build1HSO(ignore, C, T, V, q, d, n) ==
    LET H_1e_ao == [u \in 0..(n - 1), v \in 0..(n - 1) |->
                       IF ignore = FALSE THEN T[u, v] + V[u, v] + q[u, v] + d[u, v]
                       ELSE T[u, v] + V[u, v]]
        \* np.einsum("uj,vi,uv", Ca, Ca, H_1e_ao): output indices i, j
        H_mo == [i \in 0..(n - 1), j \in 0..(n - 1) |->
                    SumOver(0..(n - 1), [u \in 0..(n - 1) |->
                        SumOver(0..(n - 1), [v \in 0..(n - 1) |->
                            C[u, j] * C[v, i] * H_1e_ao[u, v]])])]
    IN  SpinBlock(H_mo, n)

\* build2DSO without the test of ignore_coupling
build2DSO_AlwaysDipole(ignore, mu, ns) ==
    [i \in 0..(ns - 1), j \in 0..(ns - 1), k \in 0..(ns - 1), l \in 0..(ns - 1) |->
        map_spatial_dipole_to_spin(mu, i, j, k, l)]

\* build2DSO: the value of self.TDI_spin
build2DSO(ignore, mu, ns) ==
    [i \in 0..(ns - 1), j \in 0..(ns - 1), k \in 0..(ns - 1), l \in 0..(ns - 1) |->
        IF ignore = FALSE THEN map_spatial_dipole_to_spin(mu, i, j, k, l) ELSE 0]

\* build2DSO: self.antiSym2eInt = self.eri_so + self.TDI_spin
AddTensors(a, b, ns) ==
    [i \in 0..(ns - 1), j \in 0..(ns - 1), k \in 0..(ns - 1), l \in 0..(ns - 1) |->
        a[i, j, k, l] + b[i, j, k, l]]

\* buildGSO: the value of self.g_so
buildGSO(ignore, w, mu, n) ==
    LET g == [p \in 0..(n - 1), q \in 0..(n - 1) |-> -SqrtHalf(w) * mu[p, q]]
        gs == SpinBlock(g, n)
    IN  IF ignore = TRUE
        THEN [P \in 0..(2 * n - 1), Q \in 0..(2 * n - 1) |-> gs[P, Q] * 0]
        ELSE gs

\* constant * _I, and the in-place *= 0 of buildConstantMatrices
Scale(c, m, n) == [i \in 0..(n - 1), j \in 0..(n - 1) |-> c * m[i, j]]

\* buildConstantMatrices without self.dc_so *= 0
buildConstantMatrices_KeepDc(ignore, nuc, w, dexp, dcv, n) ==
    LET I == Identity(n)
        Enuc0 == Scale(nuc, I, n)
        G0 == Scale(SqrtHalf(w) * dexp, I, n)
        Omega0 == Scale(w, I, n)
        dc0 == Scale(dcv, I, n)
    IN  IF ignore = TRUE
        THEN [Enuc_so |-> Enuc0, G_exp_so |-> Scale(0, G0, n),
              Omega_so |-> Scale(0, Omega0, n), dc_so |-> dc0]
        ELSE [Enuc_so |-> Enuc0, G_exp_so |-> G0, Omega_so |-> Omega0, dc_so |-> dc0]

\* buildConstantMatrices: the four matrices it leaves behind
buildConstantMatrices(ignore, nuc, w, dexp, dcv, n) ==
    LET I == Identity(n)
        Enuc0 == Scale(nuc, I, n)
        G0 == Scale(SqrtHalf(w) * dexp, I, n)
        Omega0 == Scale(w, I, n)
        dc0 == Scale(dcv, I, n)
    IN  IF ignore = TRUE
        THEN [Enuc_so |-> Enuc0, G_exp_so |-> Scale(0, G0, n),
              Omega_so |-> Scale(0, Omega0, n), dc_so |-> Scale(0, dc0, n)]
        ELSE [Enuc_so |-> Enuc0, G_exp_so |-> G0, Omega_so |-> Omega0, dc_so |-> dc0]

(***************************************************************************)
(* Matrix element evaluation (Slater-Condon dispatch).                     *)
(***************************************************************************)
\* calcMatrixElementIdentialDet
calcMatrixElementIdentialDet(Hs, A2, d) ==
    LET spinObtList == getOrbitalMixedIndexList(d)
        length == Len(spinObtList)
        Helem == SumSeq([m \in 1..length |-> Hs[spinObtList[m], spinObtList[m]]])
        Relem == SumSeq([m \in 1..length |->
                     SumSeq([x \in 1..(length - m) |->
                         A2[spinObtList[m], spinObtList[m + x],
                            spinObtList[m], spinObtList[m + x]]])])
    IN  Helem + Relem

\* calcMatrixElementDiffIn2
calcMatrixElementDiffIn2(A2, d1, d2) ==
    LET u == getUniqueOrbitalsInMixIndexListsPlusSign(d1, d2)
    IN  u.sign * A2[u.unique1[1], u.unique1[2], u.unique2[1], u.unique2[2]]

\* calcMatrixElementDiffIn1
calcMatrixElementDiffIn1(Hs, A2, d1, d2) ==
    LET u == getUniqueOrbitalsInMixIndexListsPlusSign(d1, d2)
        m == u.unique1[1]
        p == u.unique2[1]
        common == getCommonOrbitalsInMixedSpinIndexList(d1, d2)
        Relem == SumSeq([x \in 1..Len(common) |-> A2[m, common[x], p, common[x]]])
    IN  u.sign * (Hs[m, p] + Relem)

\* calcGMatrixElementDiffIn1
calcGMatrixElementDiffIn1(g, d1, d2) ==
    LET u == getUniqueOrbitalsInMixIndexListsPlusSign(d1, d2)
    IN  u.sign * g[u.unique1[1], u.unique2[1]]

\* calcGMatrixElementIdentialDet
calcGMatrixElementIdentialDet(g, d) ==
    LET spinObtList == getOrbitalMixedIndexList(d)
    IN  SumSeq([m \in 1..Len(spinObtList) |-> g[spinObtList[m], spinObtList[m]]])

\* calcApDMatrixElement taking every pair diff2OrLessOrbitals admits that
\* differs in neither 0 nor 1 orbital for a pair differing in 2
calcApDMatrixElement_NoFinalElse(Hs, A2, d1, d2) ==
    IF diff2OrLessOrbitals(d1, d2)
    THEN LET numUniqueOrbitals == numberOfTotalDiffOrbitals(d1, d2)
         IN  IF numUniqueOrbitals = 0 THEN calcMatrixElementIdentialDet(Hs, A2, d1)
             ELSE IF numUniqueOrbitals = 2 THEN calcMatrixElementDiffIn1(Hs, A2, d1, d2)
             ELSE calcMatrixElementDiffIn2(A2, d1, d2)
    ELSE 0

\* calcApDMatrixElement; numUniqueOrbitals is held in units of 1/2
calcApDMatrixElement(Hs, A2, d1, d2) ==
    IF diff2OrLessOrbitals(d1, d2)
    THEN LET numUniqueOrbitals == numberOfTotalDiffOrbitals(d1, d2)
         IN  IF numUniqueOrbitals = 0 THEN calcMatrixElementIdentialDet(Hs, A2, d1)
             ELSE IF numUniqueOrbitals = 4 THEN calcMatrixElementDiffIn2(A2, d1, d2)
             ELSE IF numUniqueOrbitals = 2 THEN calcMatrixElementDiffIn1(Hs, A2, d1, d2)
             ELSE 0
    ELSE 0

\* calcGMatrixElement; numUniqueOrbitals is held in units of 1/2
calcGMatrixElement(g, d1, d2) ==
    IF diff2OrLessOrbitals(d1, d2)
    THEN LET numUniqueOrbitals == numberOfTotalDiffOrbitals(d1, d2)
         IN  IF numUniqueOrbitals = 0 THEN calcGMatrixElementIdentialDet(g, d1)
             ELSE IF numUniqueOrbitals = 2 THEN calcGMatrixElementDiffIn1(g, d1, d2)
             ELSE 0
    ELSE 0

(***************************************************************************)
(* Configuration space generation.                                         *)
(***************************************************************************)
\* range(n) as a list
Range(n) == [x \in 1..n |-> x - 1]

\* itertools.combinations(items, k): the k-element sub-tuples in the
\* lexicographic order of their positions
RECURSIVE Combinations(_, _)
Combinations(items, k) ==
    IF k = 0 THEN << <<>> >>
    ELSE IF Len(items) < k THEN <<>>
    ELSE LET withHead == Combinations(Tail(items), k - 1)
         IN  [x \in 1..Len(withHead) |-> <<Head(items)>> \o withHead[x]]
                \o Combinations(Tail(items), k)

\* the first loop nest of generateDoubleExcitationsOfDet: one alpha and one
\* beta electron are moved
MixedDoubleBodies(d, n) ==
    LET alphaO == getOrbitalIndexLists(d)[1]
        betaO == getOrbitalIndexLists(d)[2]
        alphaU == getUnoccupiedOrbitalsInLists(d, n)[1]
        betaU == getUnoccupiedOrbitalsInLists(d, n)[2]
    IN  Concat([i \in 1..Len(alphaO) |->
          Concat([j \in 1..Len(alphaU) |->
            Concat([k \in 1..Len(betaO) |->
               [l \in 1..Len(betaU) |->
                   <<<<"removeAlphaOrbital", alphaO[i]>>,
                     <<"addAlphaOrbital", alphaU[j]>>,
                     <<"removeBetaOrbital", betaO[k]>>,
                     <<"addBetaOrbital", betaU[l]>>>>]])])])

\* the second loop nest: two alpha electrons are moved
AlphaDoubleBodies(d, n) ==
    LET occ == Combinations(getOrbitalIndexLists(d)[1], 2)
        unocc == Combinations(getUnoccupiedOrbitalsInLists(d, n)[1], 2)
    IN  Concat([x \in 1..Len(occ) |->
                   [y \in 1..Len(unocc) |->
                       <<<<"removeAlphaOrbital", occ[x][1]>>,
                         <<"addAlphaOrbital", unocc[y][1]>>,
                         <<"removeAlphaOrbital", occ[x][2]>>,
                         <<"addAlphaOrbital", unocc[y][2]>>>>]])

\* the third loop nest: two beta electrons are moved
BetaDoubleBodies(d, n) ==
    LET occ == Combinations(getOrbitalIndexLists(d)[2], 2)
        unocc == Combinations(getUnoccupiedOrbitalsInLists(d, n)[2], 2)
    IN  Concat([x \in 1..Len(occ) |->
                   [y \in 1..Len(unocc) |->
                       <<<<"removeBetaOrbital", occ[x][1]>>,
                         <<"addBetaOrbital", unocc[y][1]>>,
                         <<"removeBetaOrbital", occ[x][2]>>,
                         <<"addBetaOrbital", unocc[y][2]>>>>]])

\* the loop nests without the beta-beta nest
DoubleExcitationBodies_NoBetaBeta(d, n) ==
    MixedDoubleBodies(d, n) \o AlphaDoubleBodies(d, n)

\* the loop bodies of generateDoubleExcitationsOfDet in loop order
DoubleExcitationBodies(d, n) ==
    MixedDoubleBodies(d, n) \o AlphaDoubleBodies(d, n) \o BetaDoubleBodies(d, n)

\* Determinant.generateDoubleExcitationsOfDet: the list it returns
generateDoubleExcitationsOfDet(d, n) ==
    ExcitationLoop(d, DoubleExcitationBodies(d, n), <<>>).dets

\* generateDeterminants, the ci_level == "cis" branch: det_ref is appended
\* after generateSingleExcitationsOfDet was called on it
GenerateCIS(n, nd) ==
    LET occList == Range(nd)
        det_ref == DeterminantFromLists(occList, occList).det
        detList == generateSingleExcitationsOfDet(det_ref, n)
    IN  <<ExcitationLoop(det_ref, SingleExcitationBodies(det_ref, n), <<>>).self>>
           \o detList

\* the fci branch with the beta loop outside the alpha loop
GenerateFCI_BetaOuter(n, nd) ==
    LET combos == Combinations(Range(n), nd)
    IN  Concat([b \in 1..Len(combos) |->
                   [a \in 1..Len(combos) |->
                       DeterminantFromLists(combos[a], combos[b]).det]])

\* generateDeterminants, the ci_level == "fci" branch
GenerateFCI(n, nd) ==
    LET combos == Combinations(Range(n), nd)
    IN  Concat([a \in 1..Len(combos) |->
                   [b \in 1..Len(combos) |->
                       DeterminantFromLists(combos[a], combos[b]).det]])

\* generateDeterminants: self.dets and self.numDets after the two if
\* statements; a level that is neither "cis" nor "fci" runs neither branch
\* and raises nothing. The cis branch sets numDets = len(self.dets), the fci
\* branch adds 1 per appended determinant
generateDeterminants(level, n, nd) ==
    LET cisDets == IF level = "cis" THEN GenerateCIS(n, nd) ELSE <<>>
        cisNum == IF level = "cis" THEN Len(cisDets) ELSE 0
        combos == Combinations(Range(n), nd)
    IN  IF level = "fci"
        THEN [raised |-> "none", dets |-> cisDets \o GenerateFCI(n, nd),
              numDets |-> cisNum + Len(combos) * Len(combos)]
        ELSE [raised |-> "none", dets |-> cisDets, numDets |-> cisNum]

(***************************************************************************)
(* Hamiltonian assembly.                                                   *)
(***************************************************************************)
\* the double loop of generatePFHMatrix for ApDmatrix: entry [i, j] with
\* i >= j is evaluated, entry [j, i] is copied from it
AssembleApD(Hs, A2, ds, n) ==
    LET lower == [i \in 0..(n - 1), j \in 0..(n - 1) |->
                     IF j <= i THEN calcApDMatrixElement(Hs, A2, ds[i + 1], ds[j + 1])
                     ELSE 0]
    IN  [i \in 0..(n - 1), j \in 0..(n - 1) |-> IF j <= i THEN lower[i, j] ELSE lower[j, i]]

\* the double loop for Gmatrix evaluating both triangles instead of mirroring
AssembleG_NoMirror(g, ds, n) ==
    [i \in 0..(n - 1), j \in 0..(n - 1) |-> calcGMatrixElement(g, ds[i + 1], ds[j + 1])]

\* the double loop of generatePFHMatrix for Gmatrix
AssembleG(g, ds, n) ==
    LET lower == [i \in 0..(n - 1), j \in 0..(n - 1) |->
                     IF j <= i THEN calcGMatrixElement(g, ds[i + 1], ds[j + 1])
                     ELSE 0]
    IN  [i \in 0..(n - 1), j \in 0..(n - 1) |-> IF j <= i THEN lower[i, j] ELSE lower[j, i]]

\* the block assignments with Omega_so left out of the 1-photon block
AssembleHPF_NoOmega(ApD, G, EnucM, dcM, OmegaM, GexpM, n) ==
    [r \in 0..(2 * n - 1), c \in 0..(2 * n - 1) |->
        IF r < n /\ c < n THEN ApD[r, c] + EnucM[r, c] + dcM[r, c]
        ELSE IF r >= n /\ c >= n
             THEN ApD[r - n, c - n] + EnucM[r - n, c - n] + dcM[r - n, c - n]
        ELSE IF r >= n /\ c < n THEN G[r - n, c] + GexpM[r - n, c]
        ELSE G[r, c - n] + GexpM[r, c - n]]

\* the four block assignments of generatePFHMatrix into the
\* (2 * numDets) x (2 * numDets) matrix of zeros
AssembleHPF(ApD, G, EnucM, dcM, OmegaM, GexpM, n) ==
    [r \in 0..(2 * n - 1), c \in 0..(2 * n - 1) |->
        IF r < n /\ c < n THEN ApD[r, c] + EnucM[r, c] + dcM[r, c]
        ELSE IF r >= n /\ c >= n
             THEN ApD[r - n, c - n] + EnucM[r - n, c - n] + dcM[r - n, c - n]
                    + OmegaM[r - n, c - n]
        ELSE IF r >= n /\ c < n THEN G[r - n, c] + GexpM[r - n, c]
        ELSE G[r, c - n] + GexpM[r, c - n]]

(***************************************************************************)
(* Inputs: what cqed_rhf and psi4 hand to the generator. The families are  *)
(* numbered by a seed; even seeds are symmetric (physical) integrals, odd  *)
(* seeds are arbitrary ones.                                               *)
(***************************************************************************)
OmegaVals == {2, 8}
CILevels == {"cis", "fci", "cisd"}

CaFamily(s, n) ==
    [u \in 0..(n - 1), j \in 0..(n - 1) |->
        IF s % 2 = 0 THEN Delta(u, j) ELSE (IF u <= j THEN 1 ELSE 0)]
TFamily(s, n) ==
    [u \in 0..(n - 1), v \in 0..(n - 1) |->
        IF s % 2 = 0 THEN (u + v + s) % 3 ELSE (u + 2 * v + s) % 3]
VFamily(s, n) == [u \in 0..(n - 1), v \in 0..(n - 1) |-> -((u * v + s) % 2) - Delta(u, v)]
QFamily(s, n) == [u \in 0..(n - 1), v \in 0..(n - 1) |-> 1 + ((u + v + s) % 2)]
DFamily(s, n) == [u \in 0..(n - 1), v \in 0..(n - 1) |-> IF u = v THEN 2 ELSE -1 - s]
DipoleFamily(s, n) ==
    [p \in 0..(n - 1), q \in 0..(n - 1) |->
        IF s % 2 = 0 THEN 1 + ((p + q + (s \div 2)) % 2) ELSE 1 + ((p + 2 * q + s) % 3)]
\* spatial two-electron integrals (ij|kl) with the 8-fold symmetry
TeiFamily(s, n) ==
    [i \in 0..(n - 1), j \in 0..(n - 1), k \in 0..(n - 1), l \in 0..(n - 1) |->
        (1 + ((i + j + (s \div 2)) % 2)) * (1 + ((k + l + (s \div 2)) % 2))]
\* mints.mo_spin_eri(Ca, Ca) for the basis set of wavefunction s: an
\* antisymmetrised tensor for even seeds
EriFamily(s, n) ==
    LET tei == TeiFamily(s, n)
    IN  [i \in 0..(2 * n - 1), j \in 0..(2 * n - 1),
         k \in 0..(2 * n - 1), l \in 0..(2 * n - 1) |->
            IF s % 2 = 0 THEN map_spatial_to_spin(tei, i, j, k, l)
            ELSE ((3 * i + 5 * j + 7 * k + 2 * l + s) % 5) - 2]

Unset == <<>>

(***************************************************************************)
(* PFHamiltonianGenerator.__init__ as a sequence of steps.                 *)
(***************************************************************************)
\* no generator is under construction (the Determinant scenario)
GenIdle ==
    /\ pc = "idle"
    /\ ci_level = "cis" /\ ignore_coupling = FALSE /\ N_p = 0 /\ omega = 0
    /\ p4_wfn = 0 /\ ndocc = 0 /\ nso = 0 /\ Enuc = 0 /\ dc = 0 /\ d_exp = 0
    /\ Ca = Unset /\ T_ao = Unset /\ V_ao = Unset /\ q_PF_ao = Unset
    /\ d_PF_ao = Unset /\ d_cmo = Unset
    /\ Hspin = Unset /\ eri_so = Unset /\ TDI_spin = Unset
    /\ antiSym2eInt = Unset /\ g_so = Unset
    /\ dets = <<>> /\ numDets = 0
    /\ Enuc_so = Unset /\ G_exp_so = Unset /\ Omega_so = Unset /\ dc_so = Unset
    /\ ApDmatrix = Unset /\ Gmatrix = Unset /\ H_PF = Unset

\* no method has been called on a pair of determinants yet
PairIdle ==
    /\ excited = <<>>
    /\ uniqueOut = [unique1 |-> <<<<>>, <<>>>>, unique2 |-> <<<<>>, <<>>>>, sign |-> 1]
    /\ diffOut = <<0, 0>> /\ diff2Out = FALSE
    /\ tseed = 0 /\ elemOut = [ApD |-> 0, G12 |-> 0, G21 |-> 0]

\* no Determinant call is under way (the generator scenarios)
DetIdle ==
    /\ dpc = "idle" /\ obtList = <<>> /\ betaObtList = <<>>
    /\ bitsOut = 0 /\ listOut = <<>> /\ det = Determinant(0, 0) /\ raised = "none"
    /\ det1 = Determinant(0, 0) /\ det2 = Determinant(0, 0) /\ PairIdle

\* the generator after the arguments are stored and parseArrays has read
\* the cqed_rhf result
GenInit ==
    /\ pc = "build1HSO"
    /\ ci_level \in CILevels
    /\ ignore_coupling \in BOOLEAN
    /\ N_p \in 0..MaxPhoton
    /\ omega \in OmegaVals
    /\ nmo \in 1..MaxNmo
    /\ ndocc \in 0..nmo
    /\ nso = 2 * nmo
    /\ p4_wfn \in 0..MaxSeed
    /\ LET s == p4_wfn IN
          /\ Enuc = 3 + s /\ dc = 1 + 2 * s /\ d_exp = -1 - s
          /\ Ca = CaFamily(s, nmo)
          /\ T_ao = TFamily(s, nmo) /\ V_ao = VFamily(s, nmo)
          /\ q_PF_ao = QFamily(s, nmo) /\ d_PF_ao = DFamily(s, nmo)
          /\ d_cmo = DipoleFamily(s, nmo)
    /\ Hspin = Unset /\ eri_so = Unset /\ TDI_spin = Unset
    /\ antiSym2eInt = Unset /\ g_so = Unset
    /\ dets = <<>> /\ numDets = 0
    /\ Enuc_so = Unset /\ G_exp_so = Unset /\ Omega_so = Unset /\ dc_so = Unset
    /\ ApDmatrix = Unset /\ Gmatrix = Unset /\ H_PF = Unset

Init == DetIdle /\ GenInit

Build1HSO ==
    /\ pc = "build1HSO"
    /\ Hspin' = build1HSO(ignore_coupling, Ca, T_ao, V_ao, q_PF_ao, d_PF_ao, nmo)
    /\ pc' = "mo_spin_eri"
    /\ UNCHANGED <<eri_so, TDI_spin, antiSym2eInt, g_so>>
    /\ UNCHANGED <<detVars, argVars, rhfVars, basisVars, constVars, matVars>>

MoSpinEri ==
    /\ pc = "mo_spin_eri"
    /\ eri_so' = EriFamily(p4_wfn, nmo)
    /\ pc' = "build2DSO"
    /\ UNCHANGED <<Hspin, TDI_spin, antiSym2eInt, g_so>>
    /\ UNCHANGED <<detVars, argVars, rhfVars, basisVars, constVars, matVars>>

Build2DSO ==
    /\ pc = "build2DSO"
    /\ TDI_spin' = build2DSO(ignore_coupling, d_cmo, nso)
    /\ antiSym2eInt' = AddTensors(eri_so, TDI_spin', nso)
    /\ pc' = "buildGSO"
    /\ UNCHANGED <<Hspin, eri_so, g_so>>
    /\ UNCHANGED <<detVars, argVars, rhfVars, basisVars, constVars, matVars>>

BuildGSO ==
    /\ pc = "buildGSO"
    /\ g_so' = buildGSO(ignore_coupling, omega, d_cmo, nmo)
    /\ pc' = "generateDeterminants"
    /\ UNCHANGED <<Hspin, eri_so, TDI_spin, antiSym2eInt>>
    /\ UNCHANGED <<detVars, argVars, rhfVars, basisVars, constVars, matVars>>

GenerateDeterminants ==
    /\ pc = "generateDeterminants"
    /\ LET r == generateDeterminants(ci_level, nmo, ndocc)
       IN  /\ dets' = r.dets
           /\ numDets' = r.numDets
           /\ pc' = IF r.raised = "none" THEN "buildConstantMatrices" ELSE "raised"
    /\ UNCHANGED <<detVars, argVars, rhfVars, soVars, constVars, matVars>>

BuildConstantMatrices ==
    /\ pc = "buildConstantMatrices"
    /\ LET r == buildConstantMatrices(ignore_coupling, Enuc, omega, d_exp, dc, numDets)
       IN  /\ Enuc_so' = r.Enuc_so /\ G_exp_so' = r.G_exp_so
           /\ Omega_so' = r.Omega_so /\ dc_so' = r.dc_so
    /\ pc' = "generatePFHMatrix"
    /\ UNCHANGED <<detVars, argVars, rhfVars, soVars, basisVars, matVars>>

GeneratePFHMatrix ==
    /\ pc = "generatePFHMatrix"
    /\ ApDmatrix' = AssembleApD(Hspin, antiSym2eInt, dets, numDets)
    /\ Gmatrix' = AssembleG(g_so, dets, numDets)
    /\ H_PF' = AssembleHPF(ApDmatrix', Gmatrix', Enuc_so, dc_so, Omega_so, G_exp_so, numDets)
    /\ pc' = "done"
    /\ UNCHANGED <<detVars, argVars, rhfVars, soVars, basisVars, constVars>>

Next ==
    \/ Build1HSO
    \/ MoSpinEri
    \/ Build2DSO
    \/ BuildGSO
    \/ GenerateDeterminants
    \/ BuildConstantMatrices
    \/ GeneratePFHMatrix

Spec == Init /\ [][Next]_vars

(***************************************************************************)
(* generateDeterminants and buildConstantMatrices on their own, for larger *)
(* orbital spaces. The integral fields, which neither method reads, are    *)
(* left unset.                                                             *)
(***************************************************************************)
BasisInit ==
    /\ pc = "generateDeterminants"
    /\ ci_level \in CILevels
    /\ ignore_coupling \in BOOLEAN
    /\ N_p = 1
    /\ omega = 2
    /\ p4_wfn = 0
    /\ nmo \in 1..MaxBasisNmo
    /\ ndocc \in 0..nmo
    /\ nso = 2 * nmo
    /\ Enuc = 3 /\ dc = 1 /\ d_exp = -1
    /\ Ca = Unset /\ T_ao = Unset /\ V_ao = Unset /\ q_PF_ao = Unset
    /\ d_PF_ao = Unset /\ d_cmo = Unset
    /\ Hspin = Unset /\ eri_so = Unset /\ TDI_spin = Unset
    /\ antiSym2eInt = Unset /\ g_so = Unset
    /\ dets = <<>> /\ numDets = 0
    /\ Enuc_so = Unset /\ G_exp_so = Unset /\ Omega_so = Unset /\ dc_so = Unset
    /\ ApDmatrix = Unset /\ Gmatrix = Unset /\ H_PF = Unset

InitBasis == DetIdle /\ BasisInit

NextBasis ==
    \/ GenerateDeterminants
    \/ BuildConstantMatrices

SpecBasis == InitBasis /\ [][NextBasis]_vars

(***************************************************************************)
(* The Determinant scenario: the static conversions and the constructor    *)
(* applied to orbital index lists.                                         *)
(***************************************************************************)
OrbVals == (-1)..MaxOrb
ListsUpTo(n) == UNION {[1..k -> OrbVals] : k \in 0..n}
BetaLists == ListsUpTo(1)

InitDet ==
    /\ GenIdle
    /\ nmo \in 1..MaxOrb
    /\ dpc = "start"
    /\ obtList \in ListsUpTo(MaxLen)
    /\ betaObtList \in BetaLists
    /\ bitsOut = 0 /\ listOut = <<>> /\ det = Determinant(0, 0) /\ raised = "none"
    /\ det1 = Determinant(0, 0) /\ det2 = Determinant(0, 0) /\ PairIdle

\* bits = Determinant.obtIndexList2ObtBits(L)
ListToBits ==
    /\ dpc = "start"
    /\ LET r == obtIndexList2ObtBits(obtList)
       IN  /\ raised' = r.raised
           /\ bitsOut' = r.bits
           /\ dpc' = IF r.raised = "none" THEN "bits" ELSE "convert_raised"
    /\ UNCHANGED <<obtList, betaObtList, listOut, det, pairVars, genVars>>

\* Determinant.obtBits2ObtIndexList(bits)
BitsToList ==
    /\ dpc = "bits"
    /\ listOut' = obtBits2ObtIndexList(bitsOut)
    /\ dpc' = "list"
    /\ UNCHANGED <<obtList, betaObtList, bitsOut, det, raised, pairVars, genVars>>

\* Determinant(alphaObtList=obtList, betaObtList=betaObtList)
CreateDeterminant ==
    /\ dpc = "start"
    /\ LET r == DeterminantFromLists(obtList, betaObtList)
       IN  /\ raised' = r.raised
           /\ det' = r.det
           /\ dpc' = IF r.raised = "none" THEN "created" ELSE "create_raised"
    /\ UNCHANGED <<obtList, betaObtList, bitsOut, listOut, pairVars, genVars>>

NextDet ==
    \/ ListToBits
    \/ BitsToList
    \/ CreateDeterminant

SpecDet == InitDet /\ [][NextDet]_vars

(***************************************************************************)
(* The determinant pair scenario: the methods that compare two             *)
(* determinants, the excitation generators and the two matrix element      *)
(* evaluators, applied to determinants over nmo spatial orbitals.          *)
(***************************************************************************)
\* self.Hspin, self.antiSym2eInt and self.g_so of the generator whose
\* evaluators are called: no element is zero, g_so is symmetric for even s
PairHspin(s, ns) == [p, q \in 0..(ns - 1) |-> 1 + ((p + 2 * q + s) % 3)]
PairAntiSym2eInt(s, ns) ==
    [p, q, r, t \in 0..(ns - 1) |-> 1 + ((p + 2 * q + 3 * r + 5 * t + s) % 4)]
PairGso(s, ns) ==
    [p, q \in 0..(ns - 1) |->
        IF s % 2 = 0 THEN 1 + ((p * q + p + q + s) % 5) ELSE 1 + ((p + 2 * q + s) % 5)]

\* all determinants over n spatial orbitals
AllDets(n) ==
    {Determinant(a, b) : a \in 0..(ShiftLeft(1, n) - 1), b \in 0..(ShiftLeft(1, n) - 1)}

\* two determinants hold the same number of alpha and of beta electrons
SameCounts(d1, d2) ==
    /\ countNumOrbitalsInBits(d1.alphaObtBits) = countNumOrbitalsInBits(d2.alphaObtBits)
    /\ countNumOrbitalsInBits(d1.betaObtBits) = countNumOrbitalsInBits(d2.betaObtBits)

\* pairs of bit-strings over n orbitals with the same number of set bits
BitPairs(n) ==
    {p \in (0..(ShiftLeft(1, n) - 1)) \X (0..(ShiftLeft(1, n) - 1)) :
        countNumOrbitalsInBits(p[1]) = countNumOrbitalsInBits(p[2])}

\* the pairs the methods are applied to: any two determinants over few
\* orbitals, two determinants of one basis (equal electron counts) over
\* more, and two determinants of one basis without beta electrons over
\* the most
PairSpace(n) ==
    (IF n <= MaxAnyNmo THEN AllDets(n) \X AllDets(n) ELSE {})
      \cup (IF n <= MaxPairNmo
            THEN {<<Determinant(a[1], b[1]), Determinant(a[2], b[2])>> :
                      a \in BitPairs(n), b \in BitPairs(n)}
            ELSE {})
      \cup {<<Determinant(a[1], 0), Determinant(a[2], 0)>> : a \in BitPairs(n)}

InitPair ==
    /\ GenIdle
    /\ nmo \in 1..MaxWideNmo
    /\ dpc = "pair"
    /\ obtList = <<>> /\ betaObtList = <<>>
    /\ bitsOut = 0 /\ listOut = <<>> /\ det = Determinant(0, 0) /\ raised = "none"
    /\ \E p \in PairSpace(nmo) : det1 = p[1] /\ det2 = p[2]
    /\ PairIdle

\* det1.getUniqueOrbitalsInListsPlusSign(det2)
UniquePlusSign ==
    /\ dpc = "pair"
    /\ uniqueOut' = getUniqueOrbitalsInListsPlusSign(det1, det2)
    /\ dpc' = "unique"
    /\ UNCHANGED <<obtList, betaObtList, bitsOut, listOut, det, raised, det1, det2,
                   excited, diffOut, diff2Out, tseed, elemOut, genVars>>

\* det1.numberOfTotalDiffOrbitals(det2) and det2.numberOfTotalDiffOrbitals(det1)
TotalDiff ==
    /\ dpc = "pair"
    /\ diffOut' = <<numberOfTotalDiffOrbitals(det1, det2),
                    numberOfTotalDiffOrbitals(det2, det1)>>
    /\ dpc' = "counted"
    /\ UNCHANGED <<obtList, betaObtList, bitsOut, listOut, det, raised, det1, det2,
                   excited, uniqueOut, diff2Out, tseed, elemOut, genVars>>

\* det1.diff2OrLessOrbitals(det2)
Diff2OrLess ==
    /\ dpc = "pair"
    /\ diff2Out' = diff2OrLessOrbitals(det1, det2)
    /\ dpc' = "tested"
    /\ UNCHANGED <<obtList, betaObtList, bitsOut, listOut, det, raised, det1, det2,
                   excited, uniqueOut, diffOut, tseed, elemOut, genVars>>

\* calcApDMatrixElement(det1, det2), calcGMatrixElement(det1, det2) and
\* calcGMatrixElement(det2, det1) of a generator whose basis holds det1 and
\* det2 (the basis determinants have equal electron counts); the evaluators
\* only read the determinants
CalcElements ==
    /\ dpc = "pair"
    /\ SameCounts(det1, det2)
    /\ \E s \in 0..MaxSeed :
          /\ tseed' = s
          /\ elemOut' =
                [ApD |-> calcApDMatrixElement(PairHspin(s, 2 * nmo),
                                              PairAntiSym2eInt(s, 2 * nmo), det1, det2),
                 G12 |-> calcGMatrixElement(PairGso(s, 2 * nmo), det1, det2),
                 G21 |-> calcGMatrixElement(PairGso(s, 2 * nmo), det2, det1)]
    /\ dpc' = "elements"
    /\ UNCHANGED <<obtList, betaObtList, bitsOut, listOut, det, raised, det1, det2,
                   excited, uniqueOut, diffOut, diff2Out, genVars>>

\* det1.generateSingleExcitationsOfDet(nmo); the call takes no second
\* determinant, so it is made once per det1
GenerateSingles ==
    /\ dpc = "pair"
    /\ det2 = det1
    /\ excited' = generateSingleExcitationsOfDet(det1, nmo)
    /\ det1' = ExcitationLoop(det1, SingleExcitationBodies(det1, nmo), <<>>).self
    /\ dpc' = "singles"
    /\ UNCHANGED <<obtList, betaObtList, bitsOut, listOut, det, raised, det2,
                   uniqueOut, diffOut, diff2Out, tseed, elemOut, genVars>>

\* det1.generateDoubleExcitationsOfDet(nmo)
GenerateDoubles ==
    /\ dpc = "pair"
    /\ det2 = det1
    /\ excited' = generateDoubleExcitationsOfDet(det1, nmo)
    /\ det1' = ExcitationLoop(det1, DoubleExcitationBodies(det1, nmo), <<>>).self
    /\ dpc' = "doubles"
    /\ UNCHANGED <<obtList, betaObtList, bitsOut, listOut, det, raised, det2,
                   uniqueOut, diffOut, diff2Out, tseed, elemOut, genVars>>

NextPair ==
    \/ UniquePlusSign
    \/ TotalDiff
    \/ Diff2OrLess
    \/ CalcElements
    \/ GenerateSingles
    \/ GenerateDoubles

SpecPair == InitPair /\ [][NextPair]_vars

(***************************************************************************)
(* Properties.                                                             *)
(***************************************************************************)
Distinct(L) == \A a, b \in 1..Len(L) : a # b => L[a] # L[b]
NonNegative(L) == \A a \in 1..Len(L) : L[a] >= 0
Elements(L) == {L[a] : a \in 1..Len(L)}
StrictlyAscending(L) == \A a \in 1..(Len(L) - 1) : L[a] < L[a + 1]

\* C1: for every list L of distinct non-negative orbital indices the
\* conversion to bits raises nothing and converting the bits back gives
\* sorted(L): the same indices, as many, in strictly ascending order.
C1_RoundTripSorted ==
    (Distinct(obtList) /\ NonNegative(obtList)) =>
        /\ dpc # "convert_raised"
        /\ dpc = "list" =>
              /\ Len(listOut) = Len(obtList)
              /\ Elements(listOut) = Elements(obtList)
              /\ StrictlyAscending(listOut)

C1_Witness ==
    /\ dpc = "list"
    /\ obtList = <<3, 0, 2>>
    /\ bitsOut = 13
    /\ listOut = <<0, 2, 3>>

\* an occupied-orbital list the specification calls malformed
InvalidOccupation(L, n) ==
    \/ \E a \in 1..Len(L) : L[a] < 0 \/ L[a] >= n
    \/ ~Distinct(L)

\* C2: creating a Determinant from lists of which one holds a negative
\* index, an index >= nmo or a duplicate fails with InvalidOccupation and
\* produces no Determinant.
C2_InvalidOccupationRaised ==
    (dpc \in {"created", "create_raised"}
        /\ (InvalidOccupation(obtList, nmo) \/ InvalidOccupation(betaObtList, nmo)))
    => (dpc = "create_raised" /\ raised = "InvalidOccupation")

\* C3: generateDeterminants with a level other than "cis" and "fci" raises
\* UnsupportedCILevel: the constructor never goes on with an empty basis.
C3_UnsupportedLevelRaises ==
    (ci_level \notin {"cis", "fci"}
        /\ pc \in {"buildConstantMatrices", "generatePFHMatrix", "done", "raised"})
    => pc = "raised"

\* the generator is past generateDeterminants
BasisGenerated == pc \in {"buildConstantMatrices", "generatePFHMatrix", "done"}

\* the orbitals a bit-string occupies, read bit by bit
OccSet(bits, n) == {i \in 0..(n - 1) : (bits \div (2 ^ i)) % 2 = 1}
KSubsets(n, k) == {A \in SUBSET (0..(n - 1)) : Cardinality(A) = k}
RECURSIVE Binomial(_, _)
Binomial(n, k) ==
    IF k = 0 THEN 1 ELSE IF n = 0 THEN 0
    ELSE Binomial(n - 1, k - 1) + Binomial(n - 1, k)
Min(S) == CHOOSE x \in S : \A y \in S : x <= y
\* A before B in the lexicographic order of ascending tuples (|A| = |B|)
LexBefore(A, B) == A # B /\ Min((A \ B) \cup (B \ A)) \in A

\* C4: for "fci" the basis holds every pair of ndocc-element subsets of
\* 0..nmo-1 exactly once, alpha subset outer and beta subset inner, both in
\* lexicographic combination order, and numDets = len(dets) = C(nmo,ndocc)^2.
C4_FCIBasis ==
    (BasisGenerated /\ ci_level = "fci") =>
        /\ numDets = Len(dets)
        /\ numDets = Binomial(nmo, ndocc) * Binomial(nmo, ndocc)
        /\ \A x \in 1..Len(dets) :
              /\ dets[x].alphaObtBits < 2 ^ nmo /\ dets[x].betaObtBits < 2 ^ nmo
        /\ \A A, B \in KSubsets(nmo, ndocc) :
              Cardinality({x \in 1..Len(dets) :
                  /\ OccSet(dets[x].alphaObtBits, nmo) = A
                  /\ OccSet(dets[x].betaObtBits, nmo) = B}) = 1
        /\ \A x, y \in 1..Len(dets) :
              x < y =>
                LET Ax == OccSet(dets[x].alphaObtBits, nmo)
                    Ay == OccSet(dets[y].alphaObtBits, nmo)
                    Bx == OccSet(dets[x].betaObtBits, nmo)
                    By == OccSet(dets[y].betaObtBits, nmo)
                IN  LexBefore(Ax, Ay) \/ (Ax = Ay /\ LexBefore(Bx, By))

C4_Witness ==
    /\ BasisGenerated /\ ci_level = "fci"
    /\ nmo = 4 /\ ndocc = 2 /\ numDets = 36
    /\ dets[2] = Determinant(3, 5)

\* C5: for "cis" the basis is the reference determinant (orbitals
\* 0..ndocc-1 in alpha and beta) at index 0, then the alpha single
\* excitations in ascending (occupied, virtual) order, then the beta single
\* excitations in the same order; no duplicates; 1 + 2*ndocc*(nmo-ndocc)
\* determinants.
C5_CISBasis ==
    (BasisGenerated /\ ci_level = "cis") =>
        LET nvirt == nmo - ndocc
            ref == 2 ^ ndocc - 1
        IN  /\ numDets = 1 + 2 * ndocc * nvirt
            /\ Len(dets) = numDets
            /\ dets[1] = Determinant(ref, ref)
            /\ \A o \in 0..(ndocc - 1) : \A v \in ndocc..(nmo - 1) :
                  /\ dets[2 + o * nvirt + (v - ndocc)]
                        = Determinant(ref - 2 ^ o + 2 ^ v, ref)
                  /\ dets[2 + ndocc * nvirt + o * nvirt + (v - ndocc)]
                        = Determinant(ref, ref - 2 ^ o + 2 ^ v)
            /\ \A x, y \in 1..Len(dets) : x # y => dets[x] # dets[y]

C5_Witness ==
    /\ BasisGenerated /\ ci_level = "cis"
    /\ nmo = 4 /\ ndocc = 2 /\ numDets = 9
    /\ dets[3] = Determinant(10, 3)

\* C6: once generatePFHMatrix has run, H_PF[r][c] = H_PF[c][r] for all rows
\* and columns in [0, 2*numDets), whatever the basis and the integrals.
C6_Symmetric ==
    pc = "done" =>
        \A r, c \in 0..(2 * numDets - 1) : H_PF[r, c] = H_PF[c, r]

C6_Witness ==
    /\ pc = "done" /\ ci_level = "fci" /\ numDets = 4
    /\ g_so[0, 2] # g_so[2, 0]
    /\ Hspin[0, 2] # Hspin[2, 0]
    /\ \E r, c \in 0..(2 * numDets - 1) : r # c /\ H_PF[r, c] # 0

\* the constants buildConstantMatrices broadcasts: Enuc always, dc, G_exp
\* and omega replaced by zero when the coupling is ignored
dcBroadcast == IF ignore_coupling THEN 0 ELSE dc
G_expBroadcast == IF ignore_coupling THEN 0 ELSE SqrtHalf(omega) * d_exp
omegaBroadcast == IF ignore_coupling THEN 0 ELSE omega

\* C7: for all determinant indices i, j in [0, numDets):
\* H_PF[i][j] = ApD[i][j] + (Enuc + dc)*delta(i,j),
\* H_PF[numDets+i][numDets+j] = ApD[i][j] + (Enuc + dc + omega)*delta(i,j),
\* H_PF[i][numDets+j] = H_PF[numDets+i][j] = G[i][j] + G_exp*delta(i,j),
\* the constants being those the assembler broadcasts.
C7_BlockFormula ==
    pc = "done" =>
        /\ DOMAIN H_PF = (0..(2 * numDets - 1)) \X (0..(2 * numDets - 1))
        /\ \A i, j \in 0..(numDets - 1) :
              /\ H_PF[i, j] = ApDmatrix[i, j] + (Enuc + dcBroadcast) * Delta(i, j)
              /\ H_PF[numDets + i, numDets + j]
                    = ApDmatrix[i, j] + (Enuc + dcBroadcast + omegaBroadcast) * Delta(i, j)
              /\ H_PF[i, numDets + j] = Gmatrix[i, j] + G_expBroadcast * Delta(i, j)
              /\ H_PF[numDets + i, j] = Gmatrix[i, j] + G_expBroadcast * Delta(i, j)

C7_Witness ==
    /\ pc = "done" /\ ~ignore_coupling /\ numDets = 4 /\ omega = 8
    /\ H_PF[numDets, numDets] = ApDmatrix[0, 0] + Enuc + dc + 8
    /\ H_PF[0, numDets] = Gmatrix[0, 0] + 2 * d_exp
    /\ Gmatrix[1, 0] # 0

\* buildConstantMatrices has run
ConstantsBuilt == pc \in {"generatePFHMatrix", "done"}
AllZero(m) == \A x \in DOMAIN m : m[x] = 0

\* C8 as stated: with ignore_coupling the matrices Enuc_so, dc_so, G_exp_so
\* and Omega_so are all-zero after buildConstantMatrices.
C8_AllFourZero ==
    (ConstantsBuilt /\ ignore_coupling) =>
        /\ AllZero(Enuc_so) /\ AllZero(dc_so) /\ AllZero(G_exp_so) /\ AllZero(Omega_so)

\* C8 as amended: with ignore_coupling the matrices dc_so, G_exp_so and
\* Omega_so are all-zero after buildConstantMatrices, and Enuc_so is
\* Enuc * identity(numDets), not zeroed.
C8_CavityConstantsZero ==
    (ConstantsBuilt /\ ignore_coupling) =>
        /\ AllZero(dc_so) /\ AllZero(G_exp_so) /\ AllZero(Omega_so)
        /\ DOMAIN dc_so = (0..(numDets - 1)) \X (0..(numDets - 1))
        /\ DOMAIN G_exp_so = DOMAIN dc_so /\ DOMAIN Omega_so = DOMAIN dc_so
        /\ \A i, j \in 0..(numDets - 1) : Enuc_so[i, j] = Enuc * Delta(i, j)

C8_Witness ==
    /\ ConstantsBuilt /\ ignore_coupling /\ numDets = 4
    /\ dc # 0 /\ omega # 0 /\ d_exp # 0
    /\ Enuc_so[0, 0] = Enuc /\ Enuc # 0

\* the matrix element the assembler stores at [i, j] when it is handed the
\* tensors Hs, A2: evaluated for the lower triangle, mirrored above it
StoredApD(Hs, A2, i, j) ==
    IF j <= i THEN calcApDMatrixElement(Hs, A2, dets[i + 1], dets[j + 1])
    ELSE calcApDMatrixElement(Hs, A2, dets[j + 1], dets[i + 1])

\* C9: with ignore_coupling every entry of the two off-diagonal photon
\* blocks is exactly 0 and the 0-photon diagonal block is the electronic CI
\* matrix of the bare integrals (one-electron T + V, two-electron eri_so)
\* plus Enuc on the diagonal: no dipole self-energy term, no dc, no PF
\* one-electron terms.
C9_NoCouplingNoCavity ==
    (pc = "done" /\ ignore_coupling) =>
        LET Z == Zeros(nmo)
            HsBare == build1HSO(FALSE, Ca, T_ao, V_ao, Z, Z, nmo)
        IN  \A i, j \in 0..(numDets - 1) :
              /\ H_PF[i, numDets + j] = 0
              /\ H_PF[numDets + i, j] = 0
              /\ H_PF[i, j] = StoredApD(HsBare, eri_so, i, j) + Enuc * Delta(i, j)

C9_Witness ==
    /\ pc = "done" /\ ignore_coupling /\ ci_level = "fci" /\ numDets = 4
    /\ d_cmo[0, 1] # 0 /\ d_cmo[0, 0] # 0 /\ d_exp # 0 /\ dc # 0
    /\ q_PF_ao[0, 0] # 0 /\ d_PF_ao[0, 0] # 0
    /\ \E i, j \in 0..(numDets - 1) : i # j /\ H_PF[i, j] # 0

\* C10: with N_photon = Np the matrix has (Np+1)*numDets rows and columns,
\* indexed s*numDets+i, and every entry between photon numbers s and t with
\* |s-t| > 1 is exactly 0.
C10_PhotonBlocks ==
    pc = "done" =>
        /\ DOMAIN H_PF = (0..((N_p + 1) * numDets - 1)) \X (0..((N_p + 1) * numDets - 1))
        /\ \A s, t \in 0..N_p : \A i, j \in 0..(numDets - 1) :
              (s - t > 1 \/ t - s > 1) => H_PF[s * numDets + i, t * numDets + j] = 0

(***************************************************************************)
(* Properties of the determinant pair scenario.                            *)
(***************************************************************************)
\* the orbitals of bits that other does not occupy
UniqueSet(bits, other, n) == OccSet(bits, n) \ OccSet(other, n)

\* the occupied orbitals of bits below orbital u
Preceding(bits, u, n) == {o \in OccSet(bits, n) : o < u}

\* unique orbitals with an odd number of occupied orbitals before them
OddPreceding(bits, other, n) ==
    {u \in UniqueSet(bits, other, n) : Cardinality(Preceding(bits, u, n)) % 2 = 1}

\* unique orbitals with an odd number of occupied orbitals before them once
\* the unique orbitals below them are taken out
OddPrecedingAfterRemoval(bits, other, n) ==
    {u \in UniqueSet(bits, other, n) :
        (Cardinality(Preceding(bits, u, n))
           - Cardinality({v \in UniqueSet(bits, other, n) : v < u})) % 2 = 1}

SignOfFlips(k) == IF k % 2 = 0 THEN 1 ELSE -1

\* product of the two determinants' signs when every unique orbital with
\* an odd number of occupied same-spin orbitals before it flips the sign
SignByPrecedingCount ==
    SignOfFlips(
        Cardinality(OddPreceding(det1.alphaObtBits, det2.alphaObtBits, nmo))
      + Cardinality(OddPreceding(det1.betaObtBits, det2.betaObtBits, nmo))
      + Cardinality(OddPreceding(det2.alphaObtBits, det1.alphaObtBits, nmo))
      + Cardinality(OddPreceding(det2.betaObtBits, det1.betaObtBits, nmo)))

\* the same product when the unique orbitals below are taken out first
SignAfterRemoval ==
    SignOfFlips(
        Cardinality(OddPrecedingAfterRemoval(det1.alphaObtBits, det2.alphaObtBits, nmo))
      + Cardinality(OddPrecedingAfterRemoval(det1.betaObtBits, det2.betaObtBits, nmo))
      + Cardinality(OddPrecedingAfterRemoval(det2.alphaObtBits, det1.alphaObtBits, nmo))
      + Cardinality(OddPrecedingAfterRemoval(det2.betaObtBits, det1.betaObtBits, nmo)))

\* C11 as stated: for all pairs the sign is the product of the two
\* determinants' signs, each flipped once per unique orbital that has an odd
\* number of occupied same-spin orbitals before it in the unchanged
\* bit-string.
C11_SignByPrecedingCount ==
    dpc = "unique" => uniqueOut.sign = SignByPrecedingCount

\* C11 amended: for all pairs the sign is the product of the two
\* determinants' signs, each flipped once per unique orbital for which the
\* number of occupied same-spin orbitals before it, less the number of
\* unique orbitals of the same determinant and spin before it, is odd; for
\* two determinants with equal alpha and equal beta electron counts this is
\* the product counted on the unchanged bit-strings.
C11_SignAfterRemoval ==
    dpc = "unique" =>
        /\ uniqueOut.sign = SignAfterRemoval
        /\ SameCounts(det1, det2) => uniqueOut.sign = SignByPrecedingCount

\* two determinants of one basis with two unique alpha orbitals each and a
\* negative sign
C11_Witness ==
    /\ dpc = "unique"
    /\ SameCounts(det1, det2)
    /\ Len(uniqueOut.unique1[1]) = 2 /\ Len(uniqueOut.unique2[1]) = 2
    /\ uniqueOut.sign = -1

\* the orbitals an excited determinant e lost and gained against det1
RemovedAlpha(e) == OccSet(det1.alphaObtBits, nmo) \ OccSet(e.alphaObtBits, nmo)
AddedAlpha(e) == OccSet(e.alphaObtBits, nmo) \ OccSet(det1.alphaObtBits, nmo)
RemovedBeta(e) == OccSet(det1.betaObtBits, nmo) \ OccSet(e.betaObtBits, nmo)
AddedBeta(e) == OccSet(e.betaObtBits, nmo) \ OccSet(det1.betaObtBits, nmo)

IsMixedDouble(e) ==
    /\ Cardinality(RemovedAlpha(e)) = 1 /\ Cardinality(AddedAlpha(e)) = 1
    /\ Cardinality(RemovedBeta(e)) = 1 /\ Cardinality(AddedBeta(e)) = 1
IsAlphaDouble(e) ==
    /\ Cardinality(RemovedAlpha(e)) = 2 /\ Cardinality(AddedAlpha(e)) = 2
    /\ RemovedBeta(e) = {} /\ AddedBeta(e) = {}
IsBetaDouble(e) ==
    /\ Cardinality(RemovedBeta(e)) = 2 /\ Cardinality(AddedBeta(e)) = 2
    /\ RemovedAlpha(e) = {} /\ AddedAlpha(e) = {}

Max(S) == CHOOSE x \in S : \A y \in S : y <= x

\* the orbital indices of a double excitation: the occupied orbitals left,
\* then the unoccupied orbitals entered, alpha before beta
DoubleKey(e) ==
    IF IsMixedDouble(e)
    THEN <<Min(RemovedAlpha(e)), Min(AddedAlpha(e)), Min(RemovedBeta(e)), Min(AddedBeta(e))>>
    ELSE IF IsAlphaDouble(e)
    THEN <<Min(RemovedAlpha(e)), Max(RemovedAlpha(e)), Min(AddedAlpha(e)), Max(AddedAlpha(e))>>
    ELSE <<Min(RemovedBeta(e)), Max(RemovedBeta(e)), Min(AddedBeta(e)), Max(AddedBeta(e))>>

\* lexicographic order on tuples of four orbital indices
KeyBefore(a, b) ==
    \E x \in 1..4 : a[x] < b[x] /\ \A y \in 1..(x - 1) : a[y] = b[y]

\* place of the group of e when the groups come in the order alpha-alpha,
\* beta-beta, mixed
SameSpinFirstGroup(e) == IF IsAlphaDouble(e) THEN 0 ELSE IF IsBetaDouble(e) THEN 1 ELSE 2

\* C12: in the list generateDoubleExcitationsOfDet returns every same-spin
\* double (alpha-alpha, then beta-beta) comes before every mixed alpha+beta
\* double, and inside a group the orbital indices ascend.
C12_SameSpinBeforeMixed ==
    dpc = "doubles" =>
        \A x, y \in 1..Len(excited) :
            x < y =>
                \/ SameSpinFirstGroup(excited[x]) < SameSpinFirstGroup(excited[y])
                \/ /\ SameSpinFirstGroup(excited[x]) = SameSpinFirstGroup(excited[y])
                   /\ KeyBefore(DoubleKey(excited[x]), DoubleKey(excited[y]))

\* number of orbitals of det1 that e does not occupy
ExcitationDistance(e) == Cardinality(RemovedAlpha(e)) + Cardinality(RemovedBeta(e))

\* C13: for a determinant over [0, nmo) generateDoubleExcitationsOfDet(nmo)
\* returns, without duplicates, exactly the determinants over [0, nmo) with
\* the same alpha and beta electron counts at excitation distance 2.
C13_ExactlyTheDoubles ==
    dpc = "doubles" =>
        /\ Distinct(excited)
        /\ Elements(excited) =
              {e \in AllDets(nmo) : SameCounts(det1, e) /\ ExcitationDistance(e) = 2}

\* a determinant with doubles of all three kinds
C13_Witness ==
    /\ dpc = "doubles"
    /\ \E x, y, z \in 1..Len(excited) :
          /\ IsMixedDouble(excited[x])
          /\ IsAlphaDouble(excited[y])
          /\ IsBetaDouble(excited[z])

\* C14: for two determinants of a basis calcApDMatrixElement returns exactly
\* 0 when they differ in more than 2 orbitals and calcGMatrixElement returns
\* exactly 0 when they differ in 2 or more, whatever the tensors hold (no
\* element of the tensors handed over is zero).
C14_ZeroBeyondRank ==
    dpc = "elements" =>
        /\ ExcitationDistance(det2) > 2 => elemOut.ApD = 0
        /\ ExcitationDistance(det2) >= 2 => elemOut.G12 = 0

\* two determinants three orbitals apart that diff2OrLessOrbitals lets pass
C14_Witness ==
    /\ dpc = "elements"
    /\ ExcitationDistance(det2) = 3
    /\ diff2OrLessOrbitals(det1, det2)
    /\ elemOut.ApD = 0 /\ elemOut.G12 = 0

\* C15: numberOfTotalDiffOrbitals gives the same value in both argument
\* orders, and the value is 0 exactly when the alpha bit-sets and the beta
\* bit-sets of the two determinants are identical.
C15_SymmetricZeroIffSame ==
    dpc = "counted" =>
        /\ diffOut[1] = diffOut[2]
        /\ diffOut[1] = 0 <=>
              (det1.alphaObtBits = det2.alphaObtBits /\ det1.betaObtBits = det2.betaObtBits)

\* two determinants with different electron counts
C15_Witness ==
    /\ dpc = "counted"
    /\ ~SameCounts(det1, det2)
    /\ diffOut[1] > 0 /\ diffOut[2] > 0

\* C16: for two determinants with equal alpha and equal beta electron counts
\* diff2OrLessOrbitals is true exactly when numberOfTotalDiffOrbitals is at
\* most 2 (4 in the units of 1/2 the count is held in).
C16_ScreenIsExact ==
    (dpc = "tested" /\ SameCounts(det1, det2)) =>
        (diff2Out <=> numberOfTotalDiffOrbitals(det1, det2) <= 4)

(***************************************************************************)
(* Further properties of the generated basis.                              *)
(***************************************************************************)
\* C17: every determinant of the generated basis (CIS or FCI) has exactly
\* ndocc set bits in its alpha bit-string and in its beta bit-string, and no
\* set bit at an index of nmo or above.
C17_ElectronCountsKept ==
    BasisGenerated =>
        \A x \in 1..Len(dets) :
            /\ dets[x].alphaObtBits \in 0..(2 ^ nmo - 1)
            /\ dets[x].betaObtBits \in 0..(2 ^ nmo - 1)
            /\ Cardinality(OccSet(dets[x].alphaObtBits, nmo)) = ndocc
            /\ Cardinality(OccSet(dets[x].betaObtBits, nmo)) = ndocc

\* a CIS basis holding the reference and excited determinants
C17_Witness ==
    /\ BasisGenerated
    /\ ci_level = "cis"
    /\ ndocc >= 2 /\ nmo > ndocc
    /\ Len(dets) > 1

(***************************************************************************)
(* Both uses of a Determinant side by side: a generator being constructed, *)
(* and the Determinant methods called on a pair.                           *)
(***************************************************************************)
InitAll == Init \/ InitPair

NextAll == Next \/ NextPair

SpecAll == InitAll /\ [][NextAll]_vars

\* C18: generateSingleExcitationsOfDet and generateDoubleExcitationsOfDet
\* leave the determinant they are called on unchanged, and no step of basis
\* generation, matrix element evaluation or matrix assembly changes a
\* determinant that is already in the basis list.
C18_DeterminantsNotModified ==
    [][/\ det1' = det1
       /\ det2' = det2
       /\ BasisGenerated => dets' = dets]_vars

\* doubles were generated from det1, which still equals the value det2
\* holds from before the call
C18_Witness ==
    /\ dpc = "doubles"
    /\ Len(excited) > 1
    /\ det1 = det2

\* the g_so handed to calcGMatrixElement is a symmetric matrix
GsoSymmetric ==
    \A p, q \in 0..(2 * nmo - 1) :
        PairGso(tseed, 2 * nmo)[p, q] = PairGso(tseed, 2 * nmo)[q, p]

\* C19: for two determinants of a basis and a symmetric g_so,
\* calcGMatrixElement(d1, d2) equals calcGMatrixElement(d2, d1), so the
\* mirrored entry of Gmatrix equals the direct evaluation.
C19_GElementSymmetric ==
    (dpc = "elements" /\ GsoSymmetric) => elemOut.G12 = elemOut.G21

\* two determinants one orbital apart with a negative sign and a nonzero
\* element
C19_Witness ==
    /\ dpc = "elements"
    /\ GsoSymmetric
    /\ ExcitationDistance(det2) = 1
    /\ getUniqueOrbitalsInListsPlusSign(det1, det2).sign = -1
    /\ elemOut.G12 < 0
    /\ elemOut.G12 = elemOut.G21

====
